---- MODULE Spec2Model ----
(***************************************************************************)
(* Model of the anomaly-detection loop (src/lab9.py) and of the offline    *)
(* report generator (src/log_analysis.py).                                 *)
(*                                                                         *)
(* Python strings are modelled as sequences of string tokens, so that      *)
(* joining, splitting and number formatting are computed, not assumed.     *)
(***************************************************************************)
EXTENDS Integers, Sequences, FiniteSets, TLC

\* ------------------------------------------------------------------ bounds
MaxFrames ==
    2

MaxClock ==
    1

MaxRows ==
    2

\* Frames of the stream in the runs of the specification with fairness.
LiveFrames ==
    1

\* Runs of the detection process on the same CSV_PATH.
MaxRuns ==
    2

\* Runs of the report script on the same log and directory.
MaxReports ==
    2

\* ------------------------------------------------------- program constants
\* MAX_PERSONS = None is modelled by the value NoCap.
NoCap ==
    -1

SecondsPerMinute ==
    60

ANOMALY_SET ==
    {"chair", "cellphone"}

\* The values of MAX_PERSONS the model configures (lab9.py:30 invites an edit).
CapChoices ==
    {NoCap, 1}

SNAPSHOT_DIR ==
    <<"anomaly_images">>

HEADER ==
    << <<"timestamp">>, <<"reason">>, <<"labels">>, <<"counts">>, <<"snapshot">> >>

\* The initial value of last_reason (a dash in the source).
SENTINEL ==
    <<"-">>

FALLBACK ==
    <<"No anomaly classes present">>

\* Detection lists returned by net.Detect, each detection given by its class
\* description as the network reports it (before lower-casing).
DetectionLists ==
    { <<>>,
      <<"person">>,
      <<"person", "person">>,
      <<"Chair">>,
      <<"Chair", "cellphone">>,
      <<"cellphone", "Chair">>,
      <<"person", "Chair", "person">> }

\* ----------------------------------------------------------------- strings
\* str.lower() on the class descriptions and file suffixes of the model.
Lower(s) ==
    CASE s = "Chair" -> "chair"
      [] s = "Person" -> "person"
      [] s = ".JPG" -> ".jpg"
      [] OTHER -> s

\* Python's string order on the (lower-cased) labels of the model.
Rank(s) ==
    CASE s = "cellphone" -> 1
      [] s = "chair" -> 2
      [] s = "person" -> 3
      [] OTHER -> 4

RECURSIVE Sorted(_)
Sorted(S) ==
    IF S = {} THEN <<>>
    ELSE LET m == CHOOSE x \in S : \A y \in S : Rank(x) <= Rank(y)
         IN <<m>> \o Sorted(S \ {m})

Digit ==
    <<"0", "1", "2", "3", "4", "5", "6", "7", "8", "9">>

\* str(n) for n >= 0, as a sequence of digit tokens.
RECURSIVE Str(_)
Str(n) ==
    IF n < 10 THEN <<Digit[n + 1]>>
    ELSE Str(n \div 10) \o <<Digit[(n % 10) + 1]>>

\* sep.join(parts) where every part is itself a token sequence.
RECURSIVE Join(_, _)
Join(parts, sep) ==
    IF parts = <<>> THEN <<>>
    ELSE IF Len(parts) = 1 THEN parts[1]
    ELSE parts[1] \o <<sep>> \o Join(Tail(parts), sep)

\* A sequence of labels as a sequence of one-token strings.
Words(labels) ==
    [i \in 1..Len(labels) |-> <<labels[i]>>]

\* ---------------------------------------------------- labels and counts
LowerAll(dets) ==
    [i \in 1..Len(dets) |-> Lower(dets[i])]

Get(counts, k) ==
    IF k \in DOMAIN counts THEN counts[k] ELSE 0

RECURSIVE CountLabels(_, _)
CountLabels(labels, counts) ==
    IF labels = <<>> THEN counts
    ELSE LET L == Head(labels)
             c == [k \in (DOMAIN counts) \cup {L} |->
                      IF k = L THEN Get(counts, L) + 1 ELSE counts[k]]
         IN CountLabels(Tail(labels), c)

Present(labels) ==
    {labels[i] : i \in 1..Len(labels)}

\* ---------------------------------------------------------- anomaly logic
Rule1(present) ==
    LET bad == Sorted(present \cap ANOMALY_SET)
    IN IF bad # <<>>
       THEN << <<"Detected: ">> \o Join(Words(bad), ", ") >>
       ELSE <<>>

\* Faulty variant of Rule2: the cap is reached, not exceeded.
Rule2AtLeast(counts, cap) ==
    IF cap # NoCap /\ Get(counts, "person") >= cap
    THEN << <<"person_count>">> \o Str(cap) \o <<" (=">>
            \o Str(Get(counts, "person")) \o <<")">> >>
    ELSE <<>>

Rule2(counts, cap) ==
    IF cap # NoCap /\ Get(counts, "person") > cap
    THEN << <<"person_count>">> \o Str(cap) \o <<" (=">>
            \o Str(Get(counts, "person")) \o <<")">> >>
    ELSE <<>>

\* Faulty variant of Reasons: the count-cap reason comes first.
ReasonsCapFirst(present, counts, cap) ==
    Rule2(counts, cap) \o Rule1(present)

Reasons(present, counts, cap) ==
    Rule1(present) \o Rule2(counts, cap)

ReasonTxt(fired) ==
    IF fired # <<>> THEN Join(fired, " | ") ELSE FALLBACK

\* --------------------------------------------------------- row formatting
\* time.strftime("%Y-%m-%d %H:%M:%S"): the minute, then the second.
TimeStamp(t) ==
    Str(t \div SecondsPerMinute) \o <<":">> \o Str(t % SecondsPerMinute)

\* The snapshot of second t; the "_" keeps the two numbers apart, as the fixed
\* width of "%Y%m%d_%H%M%S" does.
SnapshotPath(t) ==
    SNAPSHOT_DIR \o <<"/", "anomaly_">> \o Str(t \div SecondsPerMinute)
        \o <<"_">> \o Str(t % SecondsPerMinute) \o <<".jpg">>

RECURSIVE Items(_, _)
Items(keys, counts) ==
    IF keys = <<>> THEN <<>>
    ELSE << <<Head(keys), ":">> \o Str(counts[Head(keys)]) >>
         \o Items(Tail(keys), counts)

\* Faulty variant of CountsField: the pairs are joined by commas.
CountsFieldCommaJoined(counts) ==
    Join(Items(Sorted(DOMAIN counts), counts), ",")

CountsField(counts) ==
    Join(Items(Sorted(DOMAIN counts), counts), ";")

Row(t, reason, present, counts, snap) ==
    << TimeStamp(t), reason, Join(Words(Sorted(present)), ";"),
       CountsField(counts), snap >>

\* ------------------------------------------------------------------- state
VARIABLES
    pc,             \* position of the detection process
    exit_reason,    \* why the loop was left: none, eos, sink, interrupt, exception, startup
    MAX_PERSONS,    \* the configured cap, or NoCap
    stream_len,     \* frames the source delivers at most
    run,            \* which run of the detection process on CSV_PATH this is
    now,            \* wall clock, in seconds
    source_live,    \* camera.IsStreaming()
    sink_live,      \* display.IsStreaming()
    img,            \* TRUE while the iteration holds a captured frame
    dets,           \* class descriptions of the detections of the frame
    counts,         \* label -> number of detections
    present,        \* set of labels
    is_anomaly,
    reason_txt,
    snapshot_path,
    anomaly_count,
    last_reason,
    csv_exists,     \* os.path.exists(CSV_PATH)
    csv_disk,       \* rows of the file CSV_PATH
    csv_buf,        \* rows written to csv_file and not yet flushed
    csv_open,       \* csv_file is open
    csv_opens,      \* number of open() calls on CSV_PATH
    csv_closes,     \* number of csv_file.close() calls
    snap_files,     \* files of SNAPSHOT_DIR
    cap_res,        \* outcome of the last Capture: none, frame, stall, eos
    snap_res,       \* outcome of this iteration's saveImage: none, ok, fail
    csv_res,        \* this iteration's row: none, written, ok, write_failed, flush_failed
    at_start,       \* what the counters and files were when the frame was captured
    exit_pc,        \* the position at which the loop was left
    frames,         \* frames the source has delivered
    detects,        \* net.Detect calls
    renders,        \* display.Render calls
    appends,        \* csv_writer.writerow calls
    saves,          \* saveImage calls
    saved,          \* saveImage calls that returned without an exception
    stalls,         \* parity of the consecutive empty captures
    agg_pc,         \* position of the report run: idle, read, listdir, report, done, failed
    agg_log,        \* rows of the structured log the report run reads (header first)
    img_dir,        \* names in IMG_DIR when the report run lists it
    agg_i,          \* data rows the report run has consumed
    total_rows,
    reasons,        \* Counter: sequence of <<key, n>> in insertion order
    class_counts,   \* Counter
    by_minute,      \* Counter
    snapshots,
    agg_out,        \* lines printed on standard output
    agg_run,        \* which run of the report script this is (0: none yet)
    agg_prev        \* what the previous report run printed

conf == <<MAX_PERSONS, stream_len, run>>
env == <<now, source_live, sink_live>>
locals == <<img, dets, counts, present, is_anomaly, reason_txt, snapshot_path>>
running == <<anomaly_count, last_reason>>
csv == <<csv_exists, csv_disk, csv_buf, csv_open, csv_opens, csv_closes>>
iter == <<cap_res, snap_res, csv_res, at_start, exit_pc>>
tally == <<frames, detects, renders, appends, saves, saved, stalls>>

loop == <<pc, exit_reason, conf, env, locals, running, csv, snap_files, iter, tally>>
agg == <<agg_pc, agg_log, img_dir, agg_i, total_rows, reasons, class_counts, by_minute,
         snapshots, agg_out, agg_run, agg_prev>>

vars == <<loop, agg>>

\* The positions inside the try block of lab9.py:113-194.
TryPCs ==
    {"capture", "detect", "branch", "snapshot", "writerow", "flush", "render", "sinkcheck"}

LoopState ==
    IF pc \in TryPCs THEN "RUNNING"
    ELSE IF pc \in {"finally", "done"} THEN "TERMINATED"
    ELSE "STARTING"

Rows ==
    Len(csv_disk) + Len(csv_buf)

Snapshot(r, c, l, f, s, a, d) ==
    [rows |-> r, count |-> c, reason |-> l, files |-> f, saves |-> s,
     appends |-> a, renders |-> d]

FreshLocals ==
    /\ img = FALSE
    /\ dets = <<>>
    /\ counts = <<>>
    /\ present = {}
    /\ is_anomaly = FALSE
    /\ reason_txt = FALLBACK
    /\ snapshot_path = <<>>

ClearLocals ==
    /\ img' = FALSE
    /\ dets' = <<>>
    /\ counts' = <<>>
    /\ present' = {}
    /\ is_anomaly' = FALSE
    /\ reason_txt' = FALLBACK
    /\ snapshot_path' = <<>>

Start ==
    /\ pc = "setup_csv"
    /\ exit_reason = "none"
    /\ MAX_PERSONS \in CapChoices
    /\ run = 1
    /\ now = 0
    /\ source_live = TRUE
    /\ sink_live = TRUE
    /\ FreshLocals
    /\ anomaly_count = 0
    /\ last_reason = SENTINEL
    /\ csv_exists = FALSE
    /\ csv_disk = <<>>
    /\ csv_buf = <<>>
    /\ csv_open = FALSE
    /\ csv_opens = 0
    /\ csv_closes = 0
    /\ snap_files = {}
    /\ cap_res = "none"
    /\ snap_res = "none"
    /\ csv_res = "none"
    /\ at_start = Snapshot(0, 0, SENTINEL, {}, 0, 0, 0)
    /\ exit_pc = "none"
    /\ frames = 0
    /\ detects = 0
    /\ renders = 0
    /\ appends = 0
    /\ saves = 0
    /\ saved = 0
    /\ stalls = 0

\* The report run before it starts (log_analysis.py:7-10).
AggStart ==
    /\ agg_i = 0
    /\ total_rows = 0
    /\ reasons = <<>>
    /\ class_counts = <<>>
    /\ by_minute = <<>>
    /\ snapshots = 0
    /\ agg_out = <<>>

AggIdle ==
    /\ agg_pc = "idle"
    /\ agg_log = <<>>
    /\ img_dir = {}
    /\ agg_run = 0
    /\ agg_prev = <<>>
    /\ AggStart

Init ==
    /\ Start
    /\ stream_len = MaxFrames
    /\ AggIdle

FairInit ==
    /\ Start
    /\ stream_len = LiveFrames
    /\ AggIdle

\* ----------------------------------------------------------------- startup
\* Faulty variant of SetupCsv: the file is opened for writing, not appending.
SetupCsvTruncates ==
    /\ pc = "setup_csv"
    /\ csv_exists' = TRUE
    /\ csv_open' = TRUE
    /\ csv_opens' = csv_opens + 1
    /\ csv_disk' = <<>>
    /\ csv_buf' = IF ~csv_exists THEN <<HEADER>> ELSE <<>>
    /\ pc' = "init_devices"
    /\ UNCHANGED <<exit_reason, conf, agg, env, locals, running, csv_closes,
                   snap_files, iter, tally>>

\* setup_csv(): the header is written when the file is new; it is not flushed.
SetupCsv ==
    /\ pc = "setup_csv"
    /\ csv_exists' = TRUE
    /\ csv_open' = TRUE
    /\ csv_opens' = csv_opens + 1
    /\ csv_buf' = IF ~csv_exists THEN <<HEADER>> ELSE <<>>
    /\ pc' = "init_devices"
    /\ UNCHANGED <<exit_reason, conf, agg, env, locals, running, csv_disk, csv_closes,
                   snap_files, iter, tally>>

\* Faulty variant of InitDevices: last_reason starts as the fallback text.
InitDevicesFallbackReason ==
    /\ pc = "init_devices"
    /\ anomaly_count' = 0
    /\ last_reason' = FALLBACK
    /\ pc' = "capture"
    /\ UNCHANGED <<exit_reason, conf, agg, env, locals, csv, snap_files, iter, tally>>

\* detectNet, videoSource and videoOutput are built; the counters are set.
InitDevices ==
    /\ pc = "init_devices"
    /\ anomaly_count' = 0
    /\ last_reason' = SENTINEL
    /\ pc' = "capture"
    /\ UNCHANGED <<exit_reason, conf, agg, env, locals, csv, snap_files, iter, tally>>

\* One of the three constructors raises: the exception leaves the module
\* before the try block is entered, so no handler and no finally clause runs.
\* What the interpreter does with the unflushed buffer at exit is not defined
\* by the program: it is written out or lost.
InitDevicesFails ==
    /\ pc = "init_devices"
    /\ pc' = "done"
    /\ exit_reason' = "startup"
    /\ exit_pc' = pc
    /\ \E written \in BOOLEAN :
          /\ csv_disk' = IF written THEN csv_disk \o csv_buf ELSE csv_disk
          /\ csv_buf' = <<>>
    /\ UNCHANGED <<conf, agg, env, locals, running, csv_exists, csv_open, csv_opens,
                   csv_closes, snap_files, cap_res, snap_res, csv_res, at_start,
                   tally>>

\* -------------------------------------------------------------------- loop
CaptureFrame ==
    /\ pc = "capture"
    /\ source_live
    /\ frames < stream_len
    /\ img' = TRUE
    /\ \E dt \in {0, 1} :
          /\ now + dt <= MaxClock
          /\ now' = now + dt
    /\ frames' = frames + 1
    /\ stalls' = 0
    /\ cap_res' = "frame"
    /\ snap_res' = "none"
    /\ csv_res' = "none"
    /\ at_start' = Snapshot(Rows, anomaly_count, last_reason, snap_files, saves,
                             appends, renders)
    /\ UNCHANGED exit_pc
    /\ pc' = "detect"
    /\ UNCHANGED <<exit_reason, conf, agg, source_live, sink_live, dets, counts, present,
                   is_anomaly, reason_txt, snapshot_path, running, csv, snap_files,
                   detects, renders, appends, saves, saved>>

\* Faulty variant of CaptureStall: an empty capture ends the loop.
CaptureStallEndsStream ==
    /\ pc = "capture"
    /\ source_live
    /\ cap_res' = "stall"
    /\ stalls' = 1 - stalls
    /\ exit_reason' = "eos"
    /\ exit_pc' = pc
    /\ pc' = "finally"
    /\ UNCHANGED <<conf, agg, env, locals, running, csv, snap_files, snap_res, csv_res,
                   at_start, frames, detects, renders, appends, saves, saved>>

\* img is None and the camera is still streaming: continue.
CaptureStall ==
    /\ pc = "capture"
    /\ source_live
    /\ cap_res' = "stall"
    /\ stalls' = 1 - stalls
    /\ pc' = "capture"
    /\ UNCHANGED <<exit_reason, conf, agg, env, locals, running, csv, snap_files,
                   snap_res, csv_res, at_start, exit_pc, frames, detects, renders,
                   appends, saves, saved>>

\* img is None and the camera no longer streams: break.
CaptureEOS ==
    /\ pc = "capture"
    /\ ~source_live
    /\ cap_res' = "eos"
    /\ exit_reason' = "eos"
    /\ exit_pc' = pc
    /\ pc' = "finally"
    /\ UNCHANGED <<conf, agg, env, locals, running, csv, snap_files, snap_res, csv_res,
                   at_start, tally>>

Capture ==
    CaptureFrame \/ CaptureStall \/ CaptureEOS

\* net.Detect, then labels, counts, present and the anomaly logic.
Detect ==
    /\ pc = "detect"
    /\ \E d \in DetectionLists :
          LET labels == LowerAll(d)
              c == CountLabels(labels, <<>>)
              p == Present(labels)
              fired == Reasons(p, c, MAX_PERSONS)
          IN /\ dets' = d
             /\ counts' = c
             /\ present' = p
             /\ is_anomaly' = (Len(fired) > 0)
             /\ reason_txt' = ReasonTxt(fired)
    /\ detects' = detects + 1
    /\ pc' = "branch"
    /\ UNCHANGED <<exit_reason, conf, agg, env, img, snapshot_path, running, csv,
                   snap_files, iter, frames, renders, appends, saves, saved, stalls>>

\* Faulty variant of Branch: last_reason is set for every frame.
BranchAlwaysSetsReason ==
    /\ pc = "branch"
    /\ last_reason' = reason_txt
    /\ IF is_anomaly
       THEN /\ anomaly_count' = anomaly_count + 1
            /\ snapshot_path' = SnapshotPath(now)
            /\ pc' = "snapshot"
       ELSE /\ snapshot_path' = <<>>
            /\ pc' = "render"
            /\ UNCHANGED anomaly_count
    /\ UNCHANGED <<exit_reason, conf, agg, env, img, dets, counts, present, is_anomaly,
                   reason_txt, csv, snap_files, iter, tally>>

\* Faulty variant of Branch: every frame is counted.
BranchCountsEveryFrame ==
    /\ pc = "branch"
    /\ anomaly_count' = anomaly_count + 1
    /\ IF is_anomaly
       THEN /\ last_reason' = reason_txt
            /\ snapshot_path' = SnapshotPath(now)
            /\ pc' = "snapshot"
       ELSE /\ snapshot_path' = <<>>
            /\ pc' = "render"
            /\ UNCHANGED last_reason
    /\ UNCHANGED <<exit_reason, conf, agg, env, img, dets, counts, present, is_anomaly,
                   reason_txt, csv, snap_files, iter, tally>>

\* snapshot_path = ""; if is_anomaly: count it and name the snapshot.  The
\* assignments of lab9.py:160-165 are one step: nothing reads the variables
\* between them.
Branch ==
    /\ pc = "branch"
    /\ IF is_anomaly
       THEN /\ anomaly_count' = anomaly_count + 1
            /\ last_reason' = reason_txt
            /\ snapshot_path' = SnapshotPath(now)
            /\ pc' = "snapshot"
       ELSE /\ snapshot_path' = <<>>
            /\ pc' = "render"
            /\ UNCHANGED running
    /\ UNCHANGED <<exit_reason, conf, agg, env, img, dets, counts, present, is_anomaly,
                   reason_txt, csv, snap_files, iter, tally>>

\* Faulty variant of SaveSnapshot: a failed save skips the record.
SaveSnapshotSkipsRecord ==
    /\ pc = "snapshot"
    /\ \E ok \in BOOLEAN :
          IF ok
          THEN /\ snap_files' = snap_files \cup {snapshot_path}
               /\ snap_res' = "ok"
               /\ saved' = saved + 1
               /\ pc' = "writerow"
               /\ UNCHANGED snapshot_path
          ELSE /\ snapshot_path' = <<>>
               /\ snap_res' = "fail"
               /\ pc' = "render"
               /\ UNCHANGED <<snap_files, saved>>
    /\ saves' = saves + 1
    /\ UNCHANGED <<exit_reason, conf, agg, env, img, dets, counts, present, is_anomaly,
                   reason_txt, running, csv, cap_res, csv_res, at_start, exit_pc,
                   frames, detects, renders, appends, stalls>>

\* Faulty variant of SaveSnapshot: a failed save leaves snapshot_path set.
SaveSnapshotKeepsPath ==
    /\ pc = "snapshot"
    /\ \E ok \in BOOLEAN :
          IF ok
          THEN /\ snap_files' = snap_files \cup {snapshot_path}
               /\ snap_res' = "ok"
               /\ saved' = saved + 1
          ELSE /\ snap_res' = "fail"
               /\ UNCHANGED <<snap_files, saved>>
    /\ saves' = saves + 1
    /\ pc' = "writerow"
    /\ UNCHANGED <<exit_reason, conf, agg, env, locals, running, csv, cap_res, csv_res,
                   at_start, exit_pc, frames, detects, renders, appends, stalls>>

\* try: saveImage(snapshot_path, img) / except Exception: snapshot_path = "".
SaveSnapshot ==
    /\ pc = "snapshot"
    /\ \E ok \in BOOLEAN :
          IF ok
          THEN /\ snap_files' = snap_files \cup {snapshot_path}
               /\ snap_res' = "ok"
               /\ saved' = saved + 1
               /\ UNCHANGED snapshot_path
          ELSE /\ snapshot_path' = <<>>
               /\ snap_res' = "fail"
               /\ UNCHANGED <<snap_files, saved>>
    /\ saves' = saves + 1
    /\ pc' = "writerow"
    /\ UNCHANGED <<exit_reason, conf, agg, env, img, dets, counts, present, is_anomaly,
                   reason_txt, running, csv, cap_res, csv_res, at_start, exit_pc,
                   frames, detects, renders, appends, stalls>>

\* Faulty variant of WriteRow: the exception of writerow is not caught.
WriteRowUncaught ==
    /\ pc = "writerow"
    /\ \E ok \in BOOLEAN :
          IF ok
          THEN /\ csv_buf' = Append(csv_buf,
                                    Row(now, reason_txt, present, counts, snapshot_path))
               /\ csv_res' = "written"
               /\ pc' = "flush"
               /\ UNCHANGED <<exit_reason, exit_pc>>
          ELSE /\ csv_res' = "write_failed"
               /\ exit_reason' = "exception"
               /\ exit_pc' = pc
               /\ pc' = "finally"
               /\ UNCHANGED csv_buf
    /\ appends' = appends + 1
    /\ UNCHANGED <<conf, agg, env, locals, running, csv_exists, csv_disk,
                   csv_open, csv_opens, csv_closes, snap_files, cap_res, snap_res,
                   at_start, frames, detects, renders, saves, saved, stalls>>

\* try: csv_writer.writerow([...]); an exception skips the flush.
WriteRow ==
    /\ pc = "writerow"
    /\ \E ok \in BOOLEAN :
          IF ok
          THEN /\ csv_buf' = Append(csv_buf,
                                    Row(now, reason_txt, present, counts, snapshot_path))
               /\ csv_res' = "written"
               /\ pc' = "flush"
          ELSE /\ csv_res' = "write_failed"
               /\ pc' = "render"
               /\ UNCHANGED csv_buf
    /\ appends' = appends + 1
    /\ UNCHANGED <<exit_reason, conf, agg, env, locals, running, csv_exists, csv_disk,
                   csv_open, csv_opens, csv_closes, snap_files, cap_res, snap_res,
                   at_start, exit_pc, frames, detects, renders, saves, saved, stalls>>

\* Faulty variant of Flush: the buffer is not written out.
FlushDeferred ==
    /\ pc = "flush"
    /\ \E ok \in BOOLEAN :
          IF ok
          THEN /\ csv_res' = "ok"
               /\ UNCHANGED <<csv_disk, csv_buf>>
          ELSE /\ csv_res' = "flush_failed"
               /\ UNCHANGED <<csv_disk, csv_buf>>
    /\ pc' = "render"
    /\ UNCHANGED <<exit_reason, conf, agg, env, locals, running, csv_exists, csv_open,
                   csv_opens, csv_closes, snap_files, cap_res, snap_res,
                   at_start, exit_pc, tally>>

\* csv_file.flush(); an exception is logged and the buffer keeps the rows.
Flush ==
    /\ pc = "flush"
    /\ \E ok \in BOOLEAN :
          IF ok
          THEN /\ csv_disk' = csv_disk \o csv_buf
               /\ csv_buf' = <<>>
               /\ csv_res' = "ok"
          ELSE /\ csv_res' = "flush_failed"
               /\ UNCHANGED <<csv_disk, csv_buf>>
    /\ pc' = "render"
    /\ UNCHANGED <<exit_reason, conf, agg, env, locals, running, csv_exists, csv_open,
                   csv_opens, csv_closes, snap_files, cap_res, snap_res,
                   at_start, exit_pc, tally>>

\* display.Render(img); display.SetStatus(hud).
Render ==
    /\ pc = "render"
    /\ renders' = renders + 1
    /\ pc' = "sinkcheck"
    /\ UNCHANGED <<exit_reason, conf, agg, env, locals, running, csv, snap_files, iter,
                   frames, detects, appends, saves, saved, stalls>>

\* Faulty variant of SinkCheck: the sink is not looked at.
SinkCheckNeverBreaks ==
    /\ pc = "sinkcheck"
    /\ pc' = "capture"
    /\ ClearLocals
    /\ UNCHANGED <<exit_reason, conf, agg, env, running, csv, snap_files, iter, tally>>

\* if not display.IsStreaming(): break; otherwise the next iteration starts
\* (the iteration's locals are dead there and are cleared).
SinkCheck ==
    /\ pc = "sinkcheck"
    /\ IF ~sink_live
       THEN /\ exit_reason' = "sink"
            /\ exit_pc' = pc
            /\ pc' = "finally"
            /\ UNCHANGED locals
       ELSE /\ pc' = "capture"
            /\ ClearLocals
            /\ UNCHANGED <<exit_reason, exit_pc>>
    /\ UNCHANGED <<conf, agg, env, running, csv, snap_files, cap_res, snap_res, csv_res,
                   at_start, tally>>

\* net.Detect or display.Render raises: no handler of the loop catches it,
\* the finally clause runs and the exception leaves the module.
UnrelatedException ==
    /\ pc \in {"detect", "render"}
    /\ exit_reason' = "exception"
    /\ exit_pc' = pc
    /\ pc' = "finally"
    /\ UNCHANGED <<conf, agg, env, locals, running, csv, snap_files, cap_res, snap_res,
                   csv_res, at_start, tally>>

\* Faulty variant of Interrupt: the handlers around saveImage and writerow
\* catch the interrupt like any exception and the iteration goes on.
InterruptSwallowed ==
    /\ pc \in TryPCs
    /\ exit_reason = "none"
    /\ exit_reason' = "interrupt"
    /\ exit_pc' = pc
    /\ pc' = IF pc \in {"snapshot", "writerow", "flush"} THEN "render" ELSE "finally"
    /\ UNCHANGED <<conf, agg, env, locals, running, csv, snap_files, cap_res, snap_res,
                   csv_res, at_start, tally>>

\* KeyboardInterrupt is raised between two bytecodes of the main thread; it
\* is no Exception, so the handlers around saveImage and writerow let it pass
\* to the except KeyboardInterrupt clause of the loop.
Interrupt ==
    /\ pc \in TryPCs
    /\ exit_reason' = "interrupt"
    /\ exit_pc' = pc
    /\ pc' = "finally"
    /\ UNCHANGED <<conf, agg, env, locals, running, csv, snap_files, cap_res, snap_res,
                   csv_res, at_start, tally>>

\* finally: csv_file.close() (which flushes; an exception of close is dropped).
Finally ==
    /\ pc = "finally"
    /\ \E ok \in BOOLEAN :
          /\ csv_disk' = IF ok THEN csv_disk \o csv_buf ELSE csv_disk
          /\ csv_buf' = <<>>
    /\ csv_open' = FALSE
    /\ csv_closes' = csv_closes + 1
    /\ pc' = "done"
    /\ UNCHANGED <<exit_reason, conf, agg, env, locals, running, csv_exists, csv_opens,
                   snap_files, iter, tally>>

\* ------------------------------------------------------------- environment
\* The two liveness flags are read at lab9.py:117 and lab9.py:191 only, so a
\* change at any other moment is the same as a change just before the next
\* read; the sink may also close while the loop waits for a frame.
SourceEnds ==
    /\ pc = "capture"
    /\ source_live
    /\ source_live' = FALSE
    /\ UNCHANGED <<pc, exit_reason, conf, agg, now, sink_live, locals, running, csv,
                   snap_files, iter, tally>>

SinkCloses ==
    /\ pc \in {"capture", "sinkcheck"}
    /\ sink_live
    /\ sink_live' = FALSE
    /\ UNCHANGED <<pc, exit_reason, conf, agg, now, source_live, locals, running, csv,
                   snap_files, iter, tally>>

\* The process is killed, the native library aborts or the power goes: no
\* handler and no finally clause runs, and what the buffer of csv_file holds
\* is never written.
Crash ==
    /\ pc \in TryPCs \cup {"init_devices", "finally"}
    /\ exit_reason' = "crash"
    /\ exit_pc' = pc
    /\ pc' = "done"
    /\ csv_buf' = <<>>
    /\ UNCHANGED <<conf, agg, env, locals, running, csv_exists, csv_disk, csv_open,
                   csv_opens, csv_closes, snap_files, cap_res, snap_res, csv_res,
                   at_start, tally>>

\* The program is started again on the same BASE_DIR: a new process with new
\* module state; CSV_PATH, SNAPSHOT_DIR and the clock are what the last run
\* left, and the source goes on with the frames it has not yet delivered.
Restart ==
    /\ pc = "done"
    /\ run < MaxRuns
    /\ run' = run + 1
    /\ pc' = "setup_csv"
    /\ exit_reason' = "none"
    /\ source_live' = TRUE
    /\ sink_live' = TRUE
    /\ ClearLocals
    /\ anomaly_count' = 0
    /\ last_reason' = SENTINEL
    /\ csv_buf' = <<>>
    /\ csv_open' = FALSE
    /\ csv_opens' = 0
    /\ csv_closes' = 0
    /\ cap_res' = "none"
    /\ snap_res' = "none"
    /\ csv_res' = "none"
    /\ at_start' = Snapshot(Len(csv_disk), 0, SENTINEL, snap_files, 0, 0, 0)
    /\ exit_pc' = "none"
    /\ detects' = 0
    /\ renders' = 0
    /\ appends' = 0
    /\ saves' = 0
    /\ saved' = 0
    /\ stalls' = 0
    /\ UNCHANGED <<MAX_PERSONS, stream_len, agg, now, csv_exists, csv_disk, snap_files,
                   frames>>

\* =========================================================== report run
\* s.split(sep) on token sequences.
RECURSIVE Split(_, _)
Split(s, sep) ==
    IF \A i \in 1..Len(s) : s[i] # sep THEN <<s>>
    ELSE LET i == CHOOSE j \in 1..Len(s) :
                      s[j] = sep /\ \A k \in 1..(j - 1) : s[k] # sep
         IN <<SubSeq(s, 1, i - 1)>> \o Split(SubSeq(s, i + 1, Len(s)), sep)

DigitVal(c) ==
    (CHOOSE i \in 1..10 : Digit[i] = c) - 1

\* Whether int(v) succeeds; the model's texts hold no sign, blank or underscore.
IsInt(v) ==
    /\ v # <<>>
    /\ \A i \in 1..Len(v) : \E d \in 1..10 : Digit[d] = v[i]

RECURSIVE ToInt(_)
ToInt(v) ==
    IF Len(v) = 1 THEN DigitVal(v[1])
    ELSE 10 * ToInt(SubSeq(v, 1, Len(v) - 1)) + DigitVal(v[Len(v)])

\* Faulty variant of Inc: the entry is set to n, not raised by n.
IncOverwrites(counter, k, n) ==
    IF \E i \in 1..Len(counter) : counter[i][1] = k
    THEN [i \in 1..Len(counter) |->
            IF counter[i][1] = k THEN <<k, n>> ELSE counter[i]]
    ELSE Append(counter, <<k, n>>)

\* counter[k] += n on a Counter kept in insertion order.
Inc(counter, k, n) ==
    IF \E i \in 1..Len(counter) : counter[i][1] = k
    THEN [i \in 1..Len(counter) |->
            IF counter[i][1] = k THEN <<k, counter[i][2] + n>> ELSE counter[i]]
    ELSE Append(counter, <<k, n>>)

\* Faulty variant of AddCounts: an entry that does not parse is passed over.
RECURSIVE AddCountsSkipping(_, _)
AddCountsSkipping(entries, cc) ==
    IF entries = <<>> THEN [ok |-> TRUE, cc |-> cc]
    ELSE LET kv == Head(entries)
             parts == Split(kv, ":")
         IN IF kv = <<>> \/ Len(parts) # 2 \/ ~IsInt(parts[Len(parts)])
            THEN AddCountsSkipping(Tail(entries), cc)
            ELSE AddCountsSkipping(Tail(entries), Inc(cc, parts[1], ToInt(parts[2])))

\* The loop over row["counts"].split(";"): ok is FALSE when k, v = kv.split(":")
\* or int(v) raises ValueError; cc holds the totals added until then.
RECURSIVE AddCounts(_, _)
AddCounts(entries, cc) ==
    IF entries = <<>> THEN [ok |-> TRUE, cc |-> cc]
    ELSE LET kv == Head(entries)
             parts == Split(kv, ":")
         IN IF kv = <<>> THEN AddCounts(Tail(entries), cc)
            ELSE IF Len(parts) # 2 THEN [ok |-> FALSE, cc |-> cc]
            ELSE IF ~IsInt(parts[2]) THEN [ok |-> FALSE, cc |-> cc]
            ELSE AddCounts(Tail(entries), Inc(cc, parts[1], ToInt(parts[2])))

\* datetime.strptime(ts, "%Y-%m-%d %H:%M:%S") and the minute bucket of the result.
ParseTime(ts) ==
    LET parts == Split(ts, ":")
    IN IF Len(parts) = 2 /\ IsInt(parts[1]) /\ IsInt(parts[2])
          /\ ToInt(parts[2]) < SecondsPerMinute
       THEN [ok |-> TRUE, minute |-> Str(ToInt(parts[1]))]
       ELSE [ok |-> FALSE, minute |-> <<>>]

\* csv.DictReader: the field of a row under a column name of the first row.
Field(file, row, name) ==
    LET i == CHOOSE j \in 1..Len(file[1]) : file[1][j] = <<name>>
    IN row[i]

\* One pass of the for loop (log_analysis.py:14-26) over the next row.
ReadRow ==
    /\ agg_pc = "read"
    /\ agg_i < Len(agg_log) - 1
    /\ LET row == agg_log[agg_i + 2]
           added == AddCounts(Split(Field(agg_log, row, "counts"), ";"), class_counts)
           t == ParseTime(Field(agg_log, row, "timestamp"))
       IN /\ total_rows' = total_rows + 1
          /\ reasons' = Inc(reasons, Field(agg_log, row, "reason"), 1)
          /\ class_counts' = added.cc
          /\ IF added.ok /\ t.ok
             THEN /\ by_minute' = Inc(by_minute, t.minute, 1)
                  /\ agg_i' = agg_i + 1
                  /\ agg_pc' = "read"
             ELSE /\ agg_pc' = "failed"
                  /\ UNCHANGED <<by_minute, agg_i>>
    /\ UNCHANGED <<loop, agg_log, img_dir, agg_run, agg_prev, snapshots, agg_out>>

\* The reader is exhausted and the file is closed.
EndOfLog ==
    /\ agg_pc = "read"
    /\ agg_i = Len(agg_log) - 1
    /\ agg_pc' = "listdir"
    /\ UNCHANGED <<loop, agg_log, img_dir, agg_run, agg_prev, agg_i, total_rows, reasons, class_counts,
                   by_minute, snapshots, agg_out>>

\* len([p for p in os.listdir(IMG_DIR) if p.lower().endswith(".jpg")]).
ListDir ==
    /\ agg_pc = "listdir"
    /\ snapshots' = Cardinality({f \in img_dir : Lower(f[Len(f)]) = ".jpg"})
    /\ agg_pc' = "report"
    /\ UNCHANGED <<loop, agg_log, img_dir, agg_run, agg_prev, agg_i, total_rows, reasons, class_counts,
                   by_minute, agg_out>>

Least(S) ==
    CHOOSE x \in S : \A y \in S : x <= y

\* x put into the sorted sequence s in front of the first element it precedes.
InsertAt(s, x, before) ==
    IF before = {} THEN Append(s, x)
    ELSE SubSeq(s, 1, Least(before) - 1) \o <<x>> \o SubSeq(s, Least(before), Len(s))

\* Counter.most_common(n): by count, largest first, equal counts in insertion order.
MostCommon(counter, n) ==
    LET f[i \in 0..Len(counter)] ==
            IF i = 0 THEN <<>>
            ELSE InsertAt(f[i - 1], counter[i],
                          {j \in 1..Len(f[i - 1]) : counter[i][2] > f[i - 1][j][2]})
        all == f[Len(counter)]
    IN SubSeq(all, 1, IF Len(all) < n THEN Len(all) ELSE n)

\* Python's order on the keys of class_counts (labels; the empty string first).
KeyRank(k) ==
    IF k = <<>> THEN 0 ELSE Rank(k[1])

\* sorted(class_counts.items()).
ByLabel(counter) ==
    LET f[i \in 0..Len(counter)] ==
            IF i = 0 THEN <<>>
            ELSE InsertAt(f[i - 1], counter[i],
                          {j \in 1..Len(f[i - 1]) :
                               KeyRank(counter[i][1]) < KeyRank(f[i - 1][j][1])})
    IN f[Len(counter)]

\* sorted(by_minute.items(), key=lambda x: (-x[1], x[0]))[:10].
ByMinute(counter, n) ==
    LET f[i \in 0..Len(counter)] ==
            IF i = 0 THEN <<>>
            ELSE InsertAt(f[i - 1], counter[i],
                          {j \in 1..Len(f[i - 1]) :
                               \/ counter[i][2] > f[i - 1][j][2]
                               \/ /\ counter[i][2] = f[i - 1][j][2]
                                  /\ ToInt(counter[i][1]) < ToInt(f[i - 1][j][1])})
        all == f[Len(counter)]
    IN SubSeq(all, 1, IF Len(all) < n THEN Len(all) ELSE n)

\* One printed line per item: the count, then the key.
Lines(items) ==
    [i \in 1..Len(items) |-> Str(items[i][2]) \o <<" ">> \o items[i][1]]

TopN ==
    10

ReportText ==
    << <<"=== Anomaly Report ===">>,
       <<"CSV anomalies:">> \o Str(total_rows),
       <<"Snapshot files:">> \o Str(snapshots),
       <<"Top reasons:">> >>
    \o Lines(MostCommon(reasons, TopN))
    \o << <<"Class totals in anomaly frames:">> >>
    \o Lines(ByLabel(class_counts))
    \o << <<"Anomalies by minute (top 10):">> >>
    \o Lines(ByMinute(by_minute, TopN))

\* The prints of log_analysis.py:30-43.
Report ==
    /\ agg_pc = "report"
    /\ agg_out' = ReportText
    /\ agg_pc' = "done"
    /\ UNCHANGED <<loop, agg_log, img_dir, agg_run, agg_prev, agg_i, total_rows, reasons, class_counts,
                   by_minute, snapshots>>

\* Faulty variant of AggRerun: the totals of the last run are kept.
AggRerunKeepsTotals ==
    /\ agg_pc \in {"done", "failed"}
    /\ agg_run < MaxReports
    /\ agg_run' = agg_run + 1
    /\ agg_prev' = agg_out
    /\ agg_pc' = "read"
    /\ agg_i' = 0
    /\ total_rows' = 0
    /\ reasons' = <<>>
    /\ by_minute' = <<>>
    /\ snapshots' = 0
    /\ agg_out' = <<>>
    /\ UNCHANGED <<loop, agg_log, img_dir, class_counts>>

\* The script is run again on the same CSV_PATH and IMG_DIR: a new process,
\* whose counters start empty (log_analysis.py:7-10).
AggRerun ==
    /\ agg_pc \in {"done", "failed"}
    /\ agg_run < MaxReports
    /\ agg_run' = agg_run + 1
    /\ agg_prev' = agg_out
    /\ agg_pc' = "read"
    /\ agg_i' = 0
    /\ total_rows' = 0
    /\ reasons' = <<>>
    /\ class_counts' = <<>>
    /\ by_minute' = <<>>
    /\ snapshots' = 0
    /\ agg_out' = <<>>
    /\ UNCHANGED <<loop, agg_log, img_dir>>

AggNext ==
    \/ ReadRow
    \/ EndOfLog
    \/ ListDir
    \/ Report
    \/ AggRerun

\* --------------------------------------------- inputs of the report run
TimeFields ==
    {TimeStamp(0), TimeStamp(SecondsPerMinute), <<"yesterday">>}

ReasonFields ==
    { <<"Detected: ", "chair">>, <<"person_count>", "1", " (=", "2", ")">> }

CountsFields ==
    { <<>>,
      <<"chair", ":", "1">>,
      <<"chair", ":", "1", ";", "person", ":", "2">>,
      <<"chair", ":", "1", ";">>,
      <<"person">>,
      <<"person", ":", "many">>,
      <<"chair", ":", "1", ":", "2">> }

DataRows ==
    { <<t, r, <<>>, c, <<>>>> : t \in TimeFields, r \in ReasonFields, c \in CountsFields }

Logs ==
    UNION { [1..n -> DataRows] : n \in 0..MaxRows }

ImgDirs ==
    { {}, { <<"anomaly_00", ".JPG">>, <<"notes", ".txt">> } }

\* The detection process is not running while the report is made.
LoopOff ==
    /\ Start
    /\ MAX_PERSONS = NoCap
    /\ stream_len = 0

AggInit ==
    /\ LoopOff
    /\ agg_pc = "read"
    /\ \E rows \in Logs : agg_log = <<HEADER>> \o rows
    /\ img_dir \in ImgDirs
    /\ agg_run = 1
    /\ agg_prev = <<>>
    /\ AggStart

AggSpec ==
    AggInit /\ [][AggNext]_vars

\* ========================================================= specifications
\* The steps the process takes by itself.
LoopStep ==
    \/ SetupCsv
    \/ InitDevices
    \/ Capture
    \/ Detect
    \/ Branch
    \/ SaveSnapshot
    \/ WriteRow
    \/ Flush
    \/ Render
    \/ SinkCheck
    \/ Finally

Next ==
    \/ LoopStep
    \/ InitDevicesFails
    \/ UnrelatedException
    \/ Interrupt
    \/ SourceEnds
    \/ SinkCloses

Spec ==
    Init /\ [][Next]_vars

\* The process keeps taking its own steps; nothing is assumed of the camera,
\* the display or the operator.
FairSpec ==
    FairInit /\ [][Next]_vars /\ WF_vars(LoopStep)

\* Several runs of the process on the same CSV_PATH, with MAX_PERSONS as the
\* source sets it.  A run ends when the source ends, when it is interrupted
\* or when it is killed, at any point.
RunsInit ==
    /\ Start
    /\ MAX_PERSONS = NoCap
    /\ stream_len = MaxFrames
    /\ AggIdle

RunsNext ==
    \/ LoopStep
    \/ SourceEnds
    \/ Interrupt
    \/ Crash
    \/ Restart

RunsSpec ==
    RunsInit /\ [][RunsNext]_vars

\* ================================================================== claims
\* The positions of an iteration that holds a frame and has evaluated it.
Evaluated ==
    {"branch", "snapshot", "writerow", "flush", "render", "sinkcheck"}

\* Rows appended to the structured log since the frame was captured.
RowsThisIteration ==
    Rows - at_start.rows

\* The row last handed to the structured log.
LastRow ==
    IF csv_buf # <<>> THEN csv_buf[Len(csv_buf)] ELSE csv_disk[Len(csv_disk)]

RowHandedOver ==
    csv_res \in {"written", "ok", "flush_failed"}

\* C1 as stated: when an iteration has processed its frame, exactly one row
\* has been appended if the frame is anomalous and none otherwise, whatever
\* failed on the way.
C1_RowIffAnomalous ==
    pc = "sinkcheck" => RowsThisIteration = (IF is_anomaly THEN 1 ELSE 0)

\* C1, amended: an iteration appends at most one row and only for an
\* anomalous frame; for an anomalous frame the row is there exactly when
\* writerow was reached and did not fail, whatever the snapshot save did.
C1_RowIffAnomalousAndWritten ==
    pc \in Evaluated =>
        /\ RowsThisIteration \in {0, 1}
        /\ (RowsThisIteration = 1) <=> (is_anomaly /\ RowHandedOver)
        /\ (pc \in {"render", "sinkcheck"} /\ is_anomaly /\ csv_res # "write_failed")
              => RowsThisIteration = 1

C1_Witness ==
    /\ pc = "sinkcheck"
    /\ is_anomaly
    /\ snap_res = "fail"
    /\ csv_res = "ok"
    /\ RowsThisIteration = 1

\* C2 as stated: an anomalous frame is counted and gets exactly one row even
\* when its snapshot save fails, and the row's snapshot field is empty
\* exactly when the save failed (the path otherwise).
C2_OneRowDespiteSnapshotFailure ==
    (pc = "sinkcheck" /\ is_anomaly) =>
        /\ anomaly_count = at_start.count + 1
        /\ RowsThisIteration = 1
        /\ LastRow[5] = (IF snap_res = "fail" THEN <<>> ELSE SnapshotPath(now))

\* C2, amended: after a failed snapshot save the frame is still counted and
\* the append is still attempted; a row appended for the frame has an
\* empty snapshot field exactly when the save failed, the path otherwise.
C2_AppendAttemptedDespiteSnapshotFailure ==
    /\ (pc \in {"render", "sinkcheck"} /\ is_anomaly) =>
          /\ anomaly_count = at_start.count + 1
          /\ snap_res \in {"ok", "fail"}
          /\ appends = at_start.appends + 1
    /\ (pc \in Evaluated /\ RowsThisIteration = 1) =>
          /\ LastRow[5] = (IF snap_res = "fail" THEN <<>> ELSE SnapshotPath(now))
          /\ (LastRow[5] = <<>>) <=> (snap_res = "fail")

C2_Witness ==
    /\ pc = "render"
    /\ is_anomaly
    /\ snap_res = "fail"
    /\ RowsThisIteration = 1
    /\ LastRow[5] = <<>>
    /\ anomaly_count = 2

\* C3: an iteration on a non-anomalous frame appends no row, saves no
\* snapshot, leaves anomaly_count and last_reason as they were, and has
\* rendered the frame when it reaches the sink check.
C3_NonAnomalousLeavesNoEvidence ==
    (pc \in Evaluated /\ ~is_anomaly) =>
        /\ RowsThisIteration = 0
        /\ appends = at_start.appends
        /\ saves = at_start.saves
        /\ snap_files = at_start.files
        /\ anomaly_count = at_start.count
        /\ last_reason = at_start.reason
        /\ pc \in {"branch", "render", "sinkcheck"}
        /\ (pc = "sinkcheck") => (renders = at_start.renders + 1)

C3_Witness ==
    /\ pc = "sinkcheck"
    /\ ~is_anomaly
    /\ dets # <<>>
    /\ anomaly_count = 1
    /\ renders = 2

\* The labels and the person count of a detection list, read off the list.
LabelsOf(d) ==
    {Lower(d[i]) : i \in 1..Len(d)}

CountOf(d, l) ==
    Cardinality({i \in 1..Len(d) : Lower(d[i]) = l})

\* C4: is_anomaly holds iff a lower-cased label is in ANOMALY_SET, or
\* MAX_PERSONS is configured and more than MAX_PERSONS detections are persons;
\* present and counts are the label set and the per-label numbers.
C4_IsAnomalyIffRuleFires ==
    pc \in Evaluated =>
        /\ present = LabelsOf(dets)
        /\ DOMAIN counts = present
        /\ \A l \in present : counts[l] = CountOf(dets, l)
        /\ is_anomaly <=>
              \/ LabelsOf(dets) \cap ANOMALY_SET # {}
              \/ MAX_PERSONS # NoCap /\ CountOf(dets, "person") > MAX_PERSONS

C4_Witness ==
    /\ pc = "branch"
    /\ MAX_PERSONS = 1
    /\ dets = <<"person", "person">>
    /\ is_anomaly

SnapshotFailed ==
    snap_res = "fail"

CsvFailed ==
    csv_res \in {"write_failed", "flush_failed"}

\* C5: a failed snapshot save or a failed structured-log write leaves the loop
\* RUNNING: the iteration goes on with its next step, renders the frame,
\* checks the sink and, the sink being live, captures again.
C5_EvidenceFailureKeepsLoopRunning ==
    [][ /\ (SnapshotFailed' /\ ~SnapshotFailed)
            => (LoopState' = "RUNNING" /\ pc' = "writerow")
        /\ (CsvFailed' /\ ~CsvFailed)
            => (LoopState' = "RUNNING" /\ pc' = "render")
        /\ (pc = "render" /\ (SnapshotFailed \/ CsvFailed) /\ exit_reason' = "none")
            => (pc' = "sinkcheck" /\ renders' = renders + 1)
        /\ (pc = "sinkcheck" /\ (SnapshotFailed \/ CsvFailed) /\ sink_live /\ pc' # pc)
            => (exit_reason' = "interrupt" \/ pc' = "capture")
      ]_vars

C5_Witness ==
    /\ pc = "detect"
    /\ frames = 2
    /\ saves = 1
    /\ appends = 1
    /\ snap_files = {}
    /\ Rows = 1

\* C6 as stated: when the process has stopped after opening the structured
\* log, the handle has been closed exactly once and is not open.
C6_HandleClosedExactlyOnce ==
    (pc = "done" /\ csv_opens > 0) => (csv_closes = 1 /\ ~csv_open)

\* C7 as stated: an interrupt takes effect at an iteration boundary only.
C7_InterruptAtBoundaryOnly ==
    exit_reason = "interrupt" => exit_pc = "capture"

\* C7, amended: an interrupt takes effect at whatever step the iteration has
\* reached; the steps not yet run are skipped (nothing more is captured,
\* detected, counted, saved, appended or rendered) and the loop unwinds to
\* the close of the structured log.
C7_InterruptAbandonsIteration ==
    [][ exit_reason = "interrupt" =>
          /\ pc \in {"finally", "done"}
          /\ pc' \in {"finally", "done"}
          /\ csv_closes' = 1
          /\ UNCHANGED <<frames, detects, renders, appends, saves, snap_files,
                         anomaly_count, last_reason>>
      ]_vars

C7_Witness ==
    /\ pc = "done"
    /\ exit_reason = "interrupt"
    /\ exit_pc = "writerow"
    /\ anomaly_count = at_start.count + 1
    /\ appends = at_start.appends
    /\ renders = at_start.renders

\* C8: an empty capture from a live source leaves the loop RUNNING at the
\* capture, runs no detection, writes no row and no snapshot, renders
\* nothing and leaves anomaly_count and last_reason alone.
C8_StallRetriesCapture ==
    [][ (pc = "capture" /\ source_live /\ source_live' /\ sink_live' = sink_live
           /\ frames' = frames /\ exit_reason' # "interrupt")
        => /\ pc' = "capture"
           /\ LoopState' = "RUNNING"
           /\ exit_reason' = "none"
           /\ UNCHANGED <<detects, renders, appends, saves, csv_disk, csv_buf,
                          snap_files, anomaly_count, last_reason>>
      ]_vars

C8_Witness ==
    /\ pc = "capture"
    /\ cap_res = "stall"
    /\ stalls = 1
    /\ frames = 1
    /\ anomaly_count = 1

Terminated ==
    LoopState = "TERMINATED"

OnceTerminatedNothingMore ==
    [][ Terminated =>
          /\ Terminated'
          /\ UNCHANGED <<frames, detects, renders, appends, saves, snap_files,
                         anomaly_count, last_reason>>
      ]_vars

IsEntry(f, i, j) ==
    /\ i <= j
    /\ \A k \in i..j : f[k] # ";"
    /\ (i = 1 \/ f[i - 1] = ";")
    /\ (j = Len(f) \/ f[j + 1] = ";")

\* The entry f[i..j] reads label:integer.
EntryWellFormed(f, i, j) ==
    \E c \in i..j :
        /\ f[c] = ":"
        /\ \A k \in i..j : (f[k] = ":") => (k = c)
        /\ c < j
        /\ \A k \in (c + 1)..j : \E d \in 1..10 : Digit[d] = f[k]

CountsWellFormed(f) ==
    \A i, j \in 1..Len(f) : IsEntry(f, i, j) => EntryWellFormed(f, i, j)

\* The timestamp reads minute:second.
TimeWellFormed(ts) ==
    \E c \in 1..Len(ts) :
        /\ ts[c] = ":"
        /\ 1 < c /\ c < Len(ts)
        /\ \A k \in 1..Len(ts) : k # c => \E d \in 1..10 : Digit[d] = ts[k]
        /\ ToInt(SubSeq(ts, c + 1, Len(ts))) < SecondsPerMinute

RowWellFormed(row) ==
    CountsWellFormed(row[4]) /\ TimeWellFormed(row[1])

\* The data rows of the log the report run reads, by position.
Malformed ==
    {i \in 1..(Len(agg_log) - 1) : ~RowWellFormed(agg_log[i + 1])}

\* C10: when a row of the structured log is malformed the report run prints
\* nothing and never completes; it consumes no row beyond the first malformed
\* one, which stops it with an error.
C10_MalformedRowRefusesReport ==
    Malformed # {} =>
        /\ agg_out = <<>>
        /\ agg_pc \in {"read", "failed"}
        /\ agg_i < Least(Malformed)
        /\ (agg_pc = "read") => (total_rows = agg_i)
        /\ (agg_pc = "failed") => (agg_i = Least(Malformed) - 1 /\ total_rows = agg_i + 1)

C10_Witness ==
    /\ agg_pc = "failed"
    /\ agg_out = <<>>
    /\ Len(agg_log) = 3
    /\ Malformed = {2}
    /\ agg_log[3][4] = <<"person", ":", "many">>
    /\ class_counts # <<>>

\* C11 as stated: over any sequence of runs on the same CSV_PATH, killed or
\* not, whatever the file holds starts with the header row, and no later line
\* of it is a header row.
C11_HeaderOnceAsFirstLine ==
    csv_disk # <<>> =>
        /\ csv_disk[1] = HEADER
        /\ \A i \in 2..Len(csv_disk) : csv_disk[i] # HEADER

\* C12 as stated: the snapshot directory holds as many image files as
\* snapshot writes have succeeded.
C12_OneFilePerSavedSnapshot ==
    Cardinality(snap_files) = saved

\* A Counter as the set of its (key, total) pairs.
AsMap(counter) ==
    {<<counter[i][1], counter[i][2]>> : i \in 1..Len(counter)}

\* C13: the counts field the evidence writer makes of a frame's label counts,
\* parsed the way the report run parses it into an empty Counter, gives the
\* same labels with the same numbers, the empty map included.
C13_CountsRoundTrip ==
    pc \in Evaluated =>
        LET parsed == AddCounts(Split(CountsField(counts), ";"), <<>>)
        IN /\ parsed.ok
           /\ Len(parsed.cc) = Cardinality(DOMAIN counts)
           /\ AsMap(parsed.cc) = {<< <<l>>, counts[l] >> : l \in DOMAIN counts}

C13_Witness ==
    /\ pc = "flush"
    /\ dets = <<"person", "Chair", "person">>
    /\ LastRow[4] = <<"chair", ":", "1", ";", "person", ":", "2">>
    /\ AddCounts(Split(LastRow[4], ";"), <<>>).cc
          = << << <<"chair">>, 1 >>, << <<"person">>, 2 >> >>

Anomalous ==
    IF is_anomaly THEN 1 ELSE 0

\* C15 as stated: at every iteration boundary and after the loop was left,
\* anomaly_count is the number of append attempts made so far.
C15_CountEqualsAppendAttempts ==
    pc \in {"capture", "finally", "done"} => anomaly_count = appends

\* C15, amended: at every iteration boundary, and once an iteration has made
\* its record, anomaly_count is the number of anomalous frames and of append
\* attempts; it never decreases and grows by 1 exactly at an anomalous frame.
\* After the loop was left the two agree as well, except that an interrupt
\* between the increment and writerow leaves the counter one ahead.
C15_CountMatchesAppendsUnlessInterrupted ==
    /\ [](pc = "capture" => anomaly_count = appends)
    /\ [](pc \in {"render", "sinkcheck"} =>
            /\ anomaly_count = at_start.count + Anomalous
            /\ appends = at_start.appends + Anomalous
            /\ anomaly_count = appends)
    /\ [](pc \in {"finally", "done"} =>
            \/ anomaly_count = appends
            \/ /\ anomaly_count = appends + 1
               /\ exit_reason = "interrupt"
               /\ exit_pc \in {"snapshot", "writerow"})
    /\ [][ \/ anomaly_count' = anomaly_count
           \/ /\ anomaly_count' = anomaly_count + 1
              /\ pc = "branch"
              /\ is_anomaly
        ]_vars

C15_Witness ==
    /\ pc = "done"
    /\ exit_reason = "eos"
    /\ frames = 2
    /\ detects = 2
    /\ anomaly_count = 1
    /\ appends = 1
    /\ Rows = 1

IsPrefix(s, t) ==
    Len(s) <= Len(t) /\ SubSeq(t, 1, Len(s)) = s

\* The second of the minute:second timestamp of a data row.
RowTime(row) ==
    LET parts == Split(row[1], ":")
    IN ToInt(parts[1]) * SecondsPerMinute + ToInt(parts[2])

\* The row the evidence writer makes of the frame in hand.
ThisRow ==
    Row(now, reason_txt, present, counts, snapshot_path)

\* C16 as stated: every step, in any run, leaves the file as it was or
\* extends it by one row at the end.
C16_GrowsByAtMostOneRow ==
    [][ /\ IsPrefix(csv_disk, csv_disk')
        /\ Len(csv_disk') <= Len(csv_disk) + 1
      ]_vars

\* C16, amended: every step, in any run, leaves the file as it was or
\* extends it at the end by the complete rows the buffer holds, which may be
\* more than one (the header with the first data row, rows of a failed
\* flush); the row of a frame goes to the end of the buffer, and the data
\* rows of the file are in the order of their frames.
C16_LogOnlyGrowsAtTheEnd ==
    /\ [][ /\ IsPrefix(csv_disk, csv_disk')
           /\ csv_disk' # csv_disk => csv_disk' = csv_disk \o csv_buf
           /\ (pc = "writerow" /\ csv_res' = "written")
                 => (csv_buf' = Append(csv_buf, ThisRow) /\ csv_disk' = csv_disk)
       ]_vars
    /\ [](\A i, j \in 1..Len(csv_disk) :
             (i < j /\ csv_disk[i] # HEADER /\ csv_disk[j] # HEADER)
                => RowTime(csv_disk[i]) <= RowTime(csv_disk[j]))

C16_Witness ==
    /\ run = 2
    /\ pc = "render"
    /\ csv_res = "ok"
    /\ Len(csv_disk) = 3
    /\ csv_disk[1] = HEADER
    /\ csv_disk[3] = ThisRow
    /\ csv_disk[2] # csv_disk[3]

\* The data rows the buffer of csv_file holds.
BufferedDataRows ==
    {i \in 1..Len(csv_buf) : csv_buf[i] # HEADER}

\* C17 as stated: once an iteration is past its record, and at every
\* iteration boundary, no appended row is left in the buffer.
C17_AppendedRowsOnFileBeforeRender ==
    pc \in {"render", "sinkcheck", "capture"} => BufferedDataRows = {}

\* C17, amended: when writerow and flush have both succeeded, the row of the
\* frame is the last row of the file, and nothing is left in the buffer,
\* before the frame is rendered; no later step takes a row of the file away.
\* (After a failed flush the iteration renders with the row still buffered.)
C17_FlushedRowOnFileBeforeRender ==
    /\ []((pc \in {"render", "sinkcheck"} /\ csv_res = "ok") =>
            /\ csv_buf = <<>>
            /\ csv_disk # <<>>
            /\ csv_disk[Len(csv_disk)] = ThisRow
            /\ Len(csv_disk) = at_start.rows + 1
            /\ (pc = "render") => (renders = at_start.renders))
    /\ []((pc \in {"render", "sinkcheck", "capture"} /\ BufferedDataRows # {})
            => csv_res # "ok")
    /\ [][IsPrefix(csv_disk, csv_disk')]_vars

C17_Witness ==
    /\ pc = "render"
    /\ csv_res = "ok"
    /\ frames = 2
    /\ renders = 1
    /\ Len(csv_disk) = 3
    /\ csv_buf = <<>>

\* The forbidden labels among the keys of counts, and whether the cap is exceeded.
BadLabels ==
    (DOMAIN counts) \cap ANOMALY_SET

OverCap ==
    MAX_PERSONS # NoCap /\ Get(counts, "person") > MAX_PERSONS

CapText ==
    <<"person_count>">> \o Str(MAX_PERSONS) \o <<" (=">>
        \o Str(Get(counts, "person")) \o <<")">>

\* C18: the reason string of an anomalous frame is fixed by the frame's label
\* counts: the forbidden-class reason, if any, comes first and lists the
\* forbidden labels once each in ascending order, separated by ", "; the
\* count-cap reason, if any, comes last, after " | " when both are there.
C18_ReasonFixedByCounts ==
    (pc \in Evaluated /\ is_anomaly) =>
        LET n == Cardinality(BadLabels)
            head == IF n = 0 THEN 0 ELSE 2 * n
            sep == IF n > 0 /\ OverCap THEN 1 ELSE 0
            tail == IF OverCap THEN Len(CapText) ELSE 0
        IN /\ Len(reason_txt) = head + sep + tail
           /\ n > 0 =>
                /\ reason_txt[1] = "Detected: "
                /\ {reason_txt[2 * k] : k \in 1..n} = BadLabels
                /\ \A k \in 1..(n - 1) :
                      /\ reason_txt[2 * k + 1] = ", "
                      /\ Rank(reason_txt[2 * k]) < Rank(reason_txt[2 * k + 2])
           /\ sep = 1 => reason_txt[head + 1] = " | "
           /\ OverCap =>
                SubSeq(reason_txt, head + sep + 1, Len(reason_txt)) = CapText

C18_Witness ==
    /\ pc = "branch"
    /\ MAX_PERSONS = 1
    /\ dets = <<"person", "Chair", "person">>
    /\ reason_txt = <<"Detected: ", "chair", " | ", "person_count>", "1", " (=", "2", ")">>

\* The sum of f over the set S.
RECURSIVE SumOf(_, _)
SumOf(f, S) ==
    IF S = {} THEN 0
    ELSE LET x == CHOOSE y \in S : TRUE
         IN f[x] + SumOf(f, S \ {x})

\* The entries of a well-formed counts field, as (first, colon, last) positions.
EntriesOf(f) ==
    {e \in (1..Len(f)) \X (1..Len(f)) \X (1..Len(f)) :
        IsEntry(f, e[1], e[3]) /\ e[1] <= e[2] /\ e[2] <= e[3] /\ f[e[2]] = ":"}

\* The count a well-formed counts field gives for a label (0 when absent).
CountIn(f, l) ==
    LET E == {e \in EntriesOf(f) : SubSeq(f, e[1], e[2] - 1) = l}
    IN SumOf([e \in E |-> ToInt(SubSeq(f, e[2] + 1, e[3]))], E)

\* The total a Counter holds for a key (0 when absent), and the sum of its totals.
TotalOf(counter, k) ==
    SumOf([i \in 1..Len(counter) |-> IF counter[i][1] = k THEN counter[i][2] ELSE 0],
          1..Len(counter))

CounterSum(counter) ==
    SumOf([i \in 1..Len(counter) |-> counter[i][2]], 1..Len(counter))

DistinctKeys(counter) ==
    \A i, j \in 1..Len(counter) : counter[i][1] = counter[j][1] => i = j

\* The labels named in the first n data rows of the log.
LabelsUpTo(n) ==
    UNION { {SubSeq(agg_log[r + 1][4], e[1], e[2] - 1) : e \in EntriesOf(agg_log[r + 1][4])}
            : r \in 1..n }

\* C19: on a well-formed log, after the report run has consumed n data rows
\* (all of them when it reports), the total of every label is the sum of the
\* label's counts in those rows, only labels of those rows have a total, and
\* the row count, the sum of the reason frequencies and the sum of the
\* per-minute counts are all n; the report prints the number of data rows.
C19_TotalsAreSumsOverRows ==
    (Malformed = {} /\ agg_pc # "idle") =>
        LET n == agg_i
        IN /\ agg_pc # "failed"
           /\ agg_pc \in {"listdir", "report", "done"} => n = Len(agg_log) - 1
           /\ total_rows = n
           /\ CounterSum(reasons) = n
           /\ CounterSum(by_minute) = n
           /\ DistinctKeys(class_counts) /\ DistinctKeys(reasons) /\ DistinctKeys(by_minute)
           /\ \A i \in 1..Len(class_counts) : class_counts[i][1] \in LabelsUpTo(n)
           /\ \A l \in LabelsUpTo(n) :
                 TotalOf(class_counts, l)
                    = SumOf([r \in 1..n |-> CountIn(agg_log[r + 1][4], l)], 1..n)
           /\ \A k \in {agg_log[r + 1][2] : r \in 1..n} :
                 TotalOf(reasons, k)
                    = Cardinality({r \in 1..n : agg_log[r + 1][2] = k})
           /\ agg_pc = "done" =>
                 agg_out[2] = <<"CSV anomalies:">> \o Str(Len(agg_log) - 1)

C19_Witness ==
    /\ agg_pc = "done"
    /\ Malformed = {}
    /\ Len(agg_log) = 3
    /\ agg_log[2][4] = <<"chair", ":", "1", ";", "person", ":", "2">>
    /\ agg_log[3][4] = <<"chair", ":", "1", ";">>
    /\ AsMap(class_counts) = { << <<"chair">>, 2 >>, << <<"person">>, 2 >> }
    /\ Len(reasons) = 2

====
